---- MODULE Spec2Model ----
(***************************************************************************)
(* PME 360 backend: the real-time notification path.                       *)
(*   - WebSocketNotificationService (src/src/services/websocket.ts): the   *)
(*     gateway and its connection registry `clients`.                      *)
(*   - NotificationsService (src/src/services/notifications.ts): the       *)
(*     notification writer, its queries and the real-time dispatch.        *)
(*   - SimpleJWTService.verifyAccessToken (src/unnamed/part_004).          *)
(* Every service method and every connection event is one action; `last`   *)
(* records the call that was made last, its arguments and what it returned *)
(* or threw.                                                               *)
(*   Spec         the notification path: connections come and go while     *)
(*                notifications are created and pushed                     *)
(*   FaultSpec    the same, with a gateway send that may throw             *)
(*   StoreSpec    the notification service's operations on the store       *)
(*   GatewaySpec  the gateway alone, with every kind of handshake          *)
(***************************************************************************)
EXTENDS Integers, Sequences, FiniteSets, TLC

\* ------------------------------------------------------------------ bounds
MaxConns == 2        \* connection handles the transport hands to the gateway
MaxFrames == 2       \* frames per connection, where a caller may repeat a send
MaxNotifs == 2       \* notification rows ever written
MaxCalls == 2        \* calls of the other services in a run
MaxDays == 1         \* days the clock advances

\* --------------------------------------------------------------- constants
AUTH_CLOSE_CODE == 4001

Users == {"u1", "u2"}            \* rows of the user table
UserIds == Users \cup {"ghost"}  \* "ghost" references no user row
NoUser == "none"
Conns == 1..MaxConns
NoConn == 0
Ids == 1..MaxNotifs
NoId == 0
Types == {"MESSAGE", "SYSTEM", "APPLICATION_UPDATE"}
NoType == "none"

VARIABLES
  wsService,      \* (global as any).wsService is set
  listening,      \* this.wss accepts connections
  clients,        \* WebSocketNotificationService.clients : userId -> connection
  readyState,     \* ws.readyState of every connection handle
  wsUserId,       \* ws.userId (set by a successful handshake)
  closeCode,      \* the code the server closed the connection with (0: none)
  frames,         \* the frames the server sent on every connection, in order
  notifications,  \* the notification table: id -> row
  nextId,         \* the next fresh notification identifier
  now,            \* the store's clock, in days
  markPending,    \* markAsRead calls between their findFirst and their update
  calls,          \* the calls of the other services and where each one stands
  conversations,  \* the conversation table, with its participants
  messages,       \* the message table
  applications,   \* the application table
  registrations,  \* the eventRegistration table
  last            \* the last call and its outcome

vars == <<wsService, listening, clients, readyState, wsUserId, closeCode, frames,
          notifications, nextId, now, markPending, calls,
          conversations, messages, applications, registrations, last>>

gatewayVars == <<wsService, listening, clients, readyState, wsUserId, closeCode, frames>>
storeVars == <<notifications, nextId, now>>
callVars == <<calls, conversations, messages, applications, registrations>>
appVars == <<markPending, callVars>>

\* ------------------------------------------------------------------ values
NoRow == [exists |-> FALSE, userId |-> NoUser, type |-> NoType, read |-> FALSE,
          createdAt |-> 0]

Frame(type, id) == [type |-> type, id |-> id]

NOT_FOUND == "Notification non trouvée"

\* ----------------------------------------------------------- bearer tokens
NoToken == [kind |-> "absent", userId |-> NoUser]
Tokens == {NoToken} \cup
          [kind : {"valid"}, userId : Users] \cup
          [kind : {"expired", "forged"}, userId : {"u1"}]

\* A handshake carries its token in the query string, in the Authorization
\* header, in both or in neither.
Requests ==
  {[query |-> t, header |-> NoToken] : t \in Tokens} \cup
  {[query |-> NoToken, header |-> t] : t \in Tokens} \cup
  {[query |-> [kind |-> "forged", userId |-> "u1"],
    header |-> [kind |-> "valid", userId |-> "u1"]]}

Null == [userId |-> NoUser]

\* url.searchParams.get('token') || request.headers.authorization?.replace(...)
ExtractToken(request) ==
  IF request.query # NoToken THEN request.query ELSE request.header

\* Mutant: the expiry of the token is not checked.
verifyAccessToken_ignoreExpiration(token) ==
  IF token.kind \in {"valid", "expired"} THEN [userId |-> token.userId]
                                         ELSE Null

\* jwt.verify succeeds only on an unexpired token signed with JWT_SECRET;
\* TokenExpiredError and JsonWebTokenError are caught and give null.
verifyAccessToken(token) ==
  IF token.kind = "valid" THEN [userId |-> token.userId] ELSE Null

\* A call of another service, and how far it is; the row a call creates
\* takes the call's number as its id.
CallIds == 1..MaxCalls
NoCall == [op |-> "none", pc |-> "idle", user |-> NoUser, target |-> "none",
           found |-> 0, res |-> "pending", ret |-> 0]
NoConversation == [exists |-> FALSE, participants |-> {}, isGroup |-> FALSE]
NoMessage == [exists |-> FALSE, conversationId |-> 0, senderId |-> NoUser,
              recipientId |-> NoUser]
NoApplication == [exists |-> FALSE, opportunityId |-> "none",
                  applicantId |-> NoUser]
NoRegistration == [exists |-> FALSE, eventId |-> "none", userId |-> NoUser]

\* ------------------------------------------------------------------- state
NoRequest == [query |-> NoToken, header |-> NoToken]

\* What a client can put in a frame: text that is not JSON, or a JSON value,
\* which is null, an object, or anything else (a number, a string, an array);
\* an object has a type and may have topics, which is an array or not.
Data(json, value, type, topics) ==
  [json |-> json, value |-> value, type |-> type, topics |-> topics]

NoData == Data(FALSE, "none", "none", "absent")

ClientFrames ==
  {NoData,
   Data(TRUE, "null", "none", "absent"),
   Data(TRUE, "scalar", "none", "absent"),
   Data(TRUE, "object", "ping", "absent"),
   Data(TRUE, "object", "other", "absent")} \cup
  {Data(TRUE, "object", "subscribe", t) : t \in {"absent", "array", "notArray"}}

\* The record of a call: its name and arguments (user, conn, id, request,
\* up: the store answered), what it returned (res: "ok" or the error thrown,
\* ret: the id of the notification returned, n: a count, ids: a page) and
\* what it logged about the push (push). again: the call repeats, with the
\* same arguments, the call made just before it.
Call(op, user, conn, id, res, n, ids) ==
  [op |-> op, user |-> user, conn |-> conn, id |-> id, res |-> res, n |-> n,
   ids |-> ids, push |-> "none", up |-> TRUE, request |-> NoRequest,
   ret |-> NoId, days |-> 0, data |-> NoData,
   again |-> last.op = op /\ last.user = user /\ last.conn = conn /\ last.id = id]

Init ==
  /\ wsService = FALSE
  /\ listening = FALSE
  /\ clients = [u \in UserIds |-> NoConn]
  /\ readyState = [c \in Conns |-> "NONE"]
  /\ wsUserId = [c \in Conns |-> NoUser]
  /\ closeCode = [c \in Conns |-> 0]
  /\ frames = [c \in Conns |-> <<>>]
  /\ notifications = [i \in Ids |-> NoRow]
  /\ nextId = 1
  /\ now = 0
  /\ markPending = [u \in Users |-> NoId]
  /\ calls = [k \in CallIds |-> NoCall]
  /\ conversations = [k \in CallIds |-> NoConversation]
  /\ messages = [k \in CallIds |-> NoMessage]
  /\ applications = [k \in CallIds |-> NoApplication]
  /\ registrations = [k \in CallIds |-> NoRegistration]
  /\ last = [op |-> "init", user |-> NoUser, conn |-> NoConn, id |-> NoId,
             res |-> "ok", n |-> 0, ids |-> <<>>, push |-> "none", up |-> TRUE,
             request |-> NoRequest, ret |-> NoId, days |-> 0,
             data |-> NoData, again |-> FALSE]

\* ----------------------------------------------------------------- gateway
\* startServer: new WebSocketNotificationService(server); global.wsService = it
StartGateway ==
  /\ ~wsService
  /\ wsService' = TRUE
  /\ listening' = TRUE
  /\ last' = Call("startGateway", NoUser, NoConn, NoId, "ok", 0, <<>>)
  /\ UNCHANGED <<clients, readyState, wsUserId, closeCode, frames, storeVars, appVars>>

\* this.clients.set(userId, ws): the entry for userId is overwritten
ClientsSet(cl, userId, ws) == [cl EXCEPT ![userId] = ws]

\* this.clients.delete(userId)
ClientsDelete(cl, userId) == [cl EXCEPT ![userId] = NoConn]

\* ws.close(code, reason) on an open socket: the closing handshake starts
WsClose(rs, ws) == [rs EXCEPT ![ws] = "CLOSING"]

\* client.send(JSON.stringify(message)) on connection ws
WsSend(fr, ws, frame) == [fr EXCEPT ![ws] = Append(@, frame)]

\* Mutant: the acknowledgement is sent before the new entry is stored, so the
\* lookup still sees the registry as it was.
sendToClient_beforeSet(cl, rs, fr, userId, frame) ==
  LET client == clients[userId] IN
  IF client # NoConn /\ rs[client] = "OPEN"
    THEN [sent |-> TRUE, frames |-> WsSend(fr, client, frame)]
    ELSE [sent |-> FALSE, frames |-> fr]

\* sendToClient(userId, message), over the registry cl
sendToClient(cl, rs, fr, userId, frame) ==
  LET client == cl[userId] IN
  IF client # NoConn /\ rs[client] = "OPEN"
    THEN [sent |-> TRUE, frames |-> WsSend(fr, client, frame)]
    ELSE [sent |-> FALSE, frames |-> fr]

\* What handleConnection does with the registry once the token is verified
\* (lines 46-49): ws.userId is set and the entry is stored; nothing is done
\* to the connection the entry held before.
RegisterConnection(cl, rs, userId, ws) ==
  [clients |-> ClientsSet(cl, userId, ws), readyState |-> rs]

\* handleConnection(ws, request): the 'connection' event of the server
HandleConnection(ws, request) ==
  /\ wsService
  /\ listening
  /\ readyState[ws] = "NONE"
  /\ \A c \in Conns : c < ws => readyState[c] # "NONE"
  /\ LET token == ExtractToken(request)
         payload == verifyAccessToken(token)
         opened == [readyState EXCEPT ![ws] = "OPEN"]
     IN
     IF token = NoToken \/ payload = Null
       THEN /\ readyState' = WsClose(opened, ws)
            /\ closeCode' = [closeCode EXCEPT ![ws] = AUTH_CLOSE_CODE]
            /\ last' = [Call("handleConnection", NoUser, ws, NoId,
                             IF token = NoToken THEN "Authentication required"
                                                ELSE "Invalid token",
                             NoConn, <<>>)
                        EXCEPT !.request = request]
            /\ UNCHANGED <<clients, wsUserId, frames>>
       ELSE LET reg == RegisterConnection(clients, opened, payload.userId, ws)
                ack == sendToClient(reg.clients, reg.readyState, frames,
                                    payload.userId, Frame("connected", NoId))
            IN
            /\ wsUserId' = [wsUserId EXCEPT ![ws] = payload.userId]
            /\ clients' = reg.clients
            /\ readyState' = reg.readyState
            /\ frames' = ack.frames
            /\ last' = [Call("handleConnection", payload.userId, ws, NoId,
                             "authenticated", clients[payload.userId], <<>>)
                        EXCEPT !.request = request]
            /\ UNCHANGED closeCode
  /\ UNCHANGED <<wsService, listening, storeVars, appVars>>

\* The transport starts closing an open connection (the peer's close frame,
\* or the socket ending): readyState leaves OPEN before 'close' is emitted.
PeerClose(ws) ==
  /\ readyState[ws] = "OPEN"
  /\ readyState' = WsClose(readyState, ws)
  /\ last' = Call("peerClose", wsUserId[ws], ws, NoId, "ok", 0, <<>>)
  /\ UNCHANGED <<wsService, listening, clients, wsUserId, closeCode, frames, storeVars, appVars>>

\* Mutant: the 'close' and 'error' listeners leave the registry alone.
OnClose_keepsEntry(cl, userId) == cl

\* ws.on('close'): if (ws.userId) this.clients.delete(ws.userId)
OnClose(cl, userId) ==
  IF userId # NoUser THEN ClientsDelete(cl, userId) ELSE cl

\* The 'close' event of a connection; the listener exists only on a
\* connection that passed the handshake, where ws.userId is set.
EmitClose(ws) ==
  /\ readyState[ws] = "CLOSING"
  /\ readyState' = [readyState EXCEPT ![ws] = "CLOSED"]
  /\ clients' = OnClose(clients, wsUserId[ws])
  /\ last' = Call("close", wsUserId[ws], ws, NoId, "ok", 0, <<>>)
  /\ UNCHANGED <<wsService, listening, wsUserId, closeCode, frames, storeVars, appVars>>

\* ws.on('error'): if (ws.userId) this.clients.delete(ws.userId); the
\* transport closes a connection that raised an error.
EmitError(ws) ==
  /\ readyState[ws] = "OPEN"
  /\ wsUserId[ws] # NoUser
  /\ readyState' = WsClose(readyState, ws)
  /\ clients' = OnClose(clients, wsUserId[ws])
  /\ last' = Call("error", wsUserId[ws], ws, NoId, "ok", 0, <<>>)
  /\ UNCHANGED <<wsService, listening, wsUserId, closeCode, frames, storeVars, appVars>>

\* Mutant: the readyState of the registered connection is not checked.
sendNotificationToUser_noStateCheck(userId, notification) ==
  LET client == clients[userId] IN
  IF client # NoConn
    THEN [sent |-> TRUE,
          frames |-> WsSend(frames, client, Frame("notification", notification))]
    ELSE [sent |-> FALSE, frames |-> frames]

\* sendNotificationToUser(userId, notification)
\* Mutant: the frame is sent a second time.
sendNotificationToUser_sendsTwice(userId, notification) ==
  LET client == clients[userId] IN
  IF client # NoConn /\ readyState[client] = "OPEN"
    THEN [sent |-> TRUE,
          frames |-> WsSend(WsSend(frames, client,
                                   Frame("notification", notification)),
                            client, Frame("notification", notification))]
    ELSE [sent |-> FALSE, frames |-> frames]

sendNotificationToUser(userId, notification) ==
  LET client == clients[userId] IN
  IF client # NoConn /\ readyState[client] = "OPEN"
    THEN [sent |-> TRUE,
          frames |-> WsSend(frames, client, Frame("notification", notification))]
    ELSE [sent |-> FALSE, frames |-> frames]

\* ws.send on the connection itself: the library sends on an open connection
\* and drops the data, without raising, on one that is closing or closed.
WsSendIfOpen(fr, ws, frame) ==
  IF readyState[ws] = "OPEN" THEN WsSend(fr, ws, frame) ELSE fr

\* JSON.parse(data.toString()) raises on text that is not JSON
JsonParseThrows(data) == ~data.json

\* Mutant: the default case of handleClientMessage answers nothing.
handleClientMessage_silentDefault(ws, message) ==
  IF message.value = "null"
    THEN [threw |-> TRUE, frames |-> frames]
  ELSE IF message.value = "object" /\ message.type = "ping"
    THEN [threw |-> FALSE,
          frames |-> WsSendIfOpen(frames, ws, Frame("pong", NoId))]
  ELSE IF message.value = "object" /\ message.type = "subscribe"
    THEN IF message.topics = "notArray"
           THEN [threw |-> TRUE, frames |-> frames]
           ELSE [threw |-> FALSE,
                 frames |-> WsSendIfOpen(frames, ws, Frame("subscribed", NoId))]
  ELSE [threw |-> FALSE, frames |-> frames]

\* handleClientMessage(ws, message): message.type of null raises, of a value
\* that is not an object is undefined; message.topics?.join raises when
\* topics is there and is not an array.
handleClientMessage(ws, message) ==
  IF message.value = "null"
    THEN [threw |-> TRUE, frames |-> frames]
  ELSE IF message.value = "object" /\ message.type = "ping"
    THEN [threw |-> FALSE,
          frames |-> WsSendIfOpen(frames, ws, Frame("pong", NoId))]
  ELSE IF message.value = "object" /\ message.type = "subscribe"
    THEN IF message.topics = "notArray"
           THEN [threw |-> TRUE, frames |-> frames]
           ELSE [threw |-> FALSE,
                 frames |-> WsSendIfOpen(frames, ws, Frame("subscribed", NoId))]
  ELSE [threw |-> FALSE,
        frames |-> WsSendIfOpen(frames, ws, Frame("error", NoId))]

\* Mutant: the message listener has no try/catch.
onMessage_noCatch(ws, data) ==
  IF JsonParseThrows(data)
    THEN [uncaught |-> TRUE, frames |-> frames]
    ELSE LET r == handleClientMessage(ws, data) IN
         [uncaught |-> r.threw, frames |-> r.frames]

\* ws.on('message', ...): parse and dispatch; whatever is raised is caught
\* and answered with an error frame.
onMessage(ws, data) ==
  IF JsonParseThrows(data)
    THEN [uncaught |-> FALSE,
          frames |-> WsSendIfOpen(frames, ws, Frame("error", NoId))]
    ELSE LET r == handleClientMessage(ws, data) IN
         IF r.threw
           THEN [uncaught |-> FALSE,
                 frames |-> WsSendIfOpen(frames, ws, Frame("error", NoId))]
           ELSE [uncaught |-> FALSE, frames |-> r.frames]

\* The answers to client frames sent so far, over all connections
Answers ==
  {p \in Conns \X (1..(MaxFrames + MaxNotifs + 1)) :
     /\ p[2] <= Len(frames[p[1]])
     /\ frames[p[1]][p[2]].type \in {"pong", "subscribed", "error"}}

\* A frame from the client arrives on a connection that passed the handshake
\* and has not emitted 'close'.
OnMessage(ws, data) ==
  /\ wsUserId[ws] # NoUser
  /\ readyState[ws] \in {"OPEN", "CLOSING"}
  /\ readyState[ws] = "OPEN" => Cardinality(Answers) < MaxFrames - 1
  /\ LET r == onMessage(ws, data) IN
     /\ frames' = r.frames
     /\ last' = [Call("message", wsUserId[ws], ws, NoId,
                      IF r.uncaught THEN "uncaught" ELSE "ok", 0, <<>>)
                 EXCEPT !.data = data]
  /\ UNCHANGED <<wsService, listening, clients, readyState, wsUserId, closeCode, storeVars, appVars>>

\* ------------------------------------------------------- persistent store
\* A Prisma `where` names, per column, the values it admits.
Where(ids, userIds, reads, types) ==
  [id |-> ids, userId |-> userIds, read |-> reads, type |-> types]

Matches(t, i, where) ==
  /\ t[i].exists
  /\ i \in where.id
  /\ t[i].userId \in where.userId
  /\ t[i].read \in where.read
  /\ t[i].type \in where.type

Matching(t, where) == {i \in Ids : Matches(t, i, where)}

\* The schema's default for the read column, which create leaves unset.
DefaultRead == FALSE

\* The schema's default for the createdAt column, which create leaves unset.
DefaultCreatedAt == now

\* prisma.notification.create: the userId column is a foreign key
PrismaCreate(t, id, userId, type) ==
  IF userId \in Users
    THEN [error |-> "none",
          table |-> [t EXCEPT ![id] = [exists |-> TRUE, userId |-> userId,
                                       type |-> type, read |-> DefaultRead,
                                       createdAt |-> DefaultCreatedAt]]]
    ELSE [error |-> "P2003", table |-> t]

\* prisma.notification.findFirst: an id that matches, or null
PrismaFindFirst(t, where) ==
  IF Matching(t, where) = {} THEN NoId
  ELSE CHOOSE i \in Matching(t, where) : \A j \in Matching(t, where) : i <= j

\* Mutant: update writes a row that holds the data alone.
PrismaUpdate_replacesRow(t, id, read) ==
  IF id \in Ids /\ t[id].exists
    THEN [error |-> "none",
          table |-> [t EXCEPT ![id] = [NoRow EXCEPT !.exists = TRUE,
                                                    !.read = read]]]
    ELSE [error |-> "P2025", table |-> t]

\* prisma.notification.update({where: {id}, data: {read}})
PrismaUpdate(t, id, read) ==
  IF id \in Ids /\ t[id].exists
    THEN [error |-> "none", table |-> [t EXCEPT ![id].read = read]]
    ELSE [error |-> "P2025", table |-> t]

\* prisma.notification.updateMany({where, data: {read}})
PrismaUpdateMany(t, where, read) ==
  [count |-> Cardinality(Matching(t, where)),
   table |-> [i \in Ids |-> IF Matches(t, i, where)
                              THEN [t[i] EXCEPT !.read = read] ELSE t[i]]]

\* prisma.notification.delete({where: {id}})
PrismaDelete(t, id) ==
  IF id \in Ids /\ t[id].exists
    THEN [error |-> "none", table |-> [t EXCEPT ![id] = NoRow]]
    ELSE [error |-> "P2025", table |-> t]

\* prisma.notification.deleteMany({where: {createdAt: {lt}, ...}})
PrismaDeleteMany(t, where, createdBefore) ==
  LET gone == {i \in Matching(t, where) : t[i].createdAt < createdBefore} IN
  [count |-> Cardinality(gone),
   table |-> [i \in Ids |-> IF i \in gone THEN NoRow ELSE t[i]]]

\* prisma.notification.count({where})
PrismaCount(t, where) == Cardinality(Matching(t, where))

\* The ids of s, largest first: rows are created in id order, so this is
\* orderBy createdAt desc.
RECURSIVE Descending(_)
Descending(s) ==
  IF s = {} THEN <<>>
  ELSE LET m == CHOOSE i \in s : \A j \in s : j <= i
       IN <<m>> \o Descending(s \ {m})

\* prisma.notification.findMany({where, orderBy, skip, take})
PrismaFindMany(t, where, skip, take) ==
  LET all == Descending(Matching(t, where))
      hi == IF skip + take < Len(all) THEN skip + take ELSE Len(all)
  IN SubSeq(all, skip + 1, hi)

\* -------------------------------------------------- NotificationsService
\* Mutant: no try/catch around the push, so a throwing send propagates.
emitRealTimeNotification_noCatch(id, userId, sendThrows) ==
  IF wsService
    THEN IF sendThrows
           THEN [threw |-> TRUE, push |-> "none", frames |-> frames]
           ELSE LET r == sendNotificationToUser(userId, id)
                IN [threw |-> FALSE,
                    push |-> IF r.sent THEN "sent" ELSE "notConnected",
                    frames |-> r.frames]
    ELSE [threw |-> FALSE, push |-> "unavailable", frames |-> frames]

\* emitRealTimeNotification(notification); sendThrows: the send raises
emitRealTimeNotification(id, userId, sendThrows) ==
  IF wsService
    THEN IF sendThrows
           THEN [threw |-> FALSE, push |-> "caught", frames |-> frames]
           ELSE LET r == sendNotificationToUser(userId, id)
                IN [threw |-> FALSE,
                    push |-> IF r.sent THEN "sent" ELSE "notConnected",
                    frames |-> r.frames]
    ELSE [threw |-> FALSE, push |-> "unavailable", frames |-> frames]

\* Mutant: the push is made before the write is awaited, whatever the write
\* then answers.
CreateNotification_pushFirst(userId, type, storeUp, sendThrows) ==
  /\ nextId <= MaxNotifs
  /\ LET e == emitRealTimeNotification(nextId, userId, sendThrows)
         w == IF storeUp THEN PrismaCreate(notifications, nextId, userId, type)
                         ELSE [error |-> "unavailable", table |-> notifications]
     IN
     /\ frames' = e.frames
     /\ notifications' = w.table
     /\ nextId' = IF w.error = "none" THEN nextId + 1 ELSE nextId
     /\ last' = [Call("createNotification", userId, NoConn, nextId,
                      IF w.error = "none" THEN "ok" ELSE w.error, 0, <<>>)
                 EXCEPT !.push = e.push, !.up = storeUp,
                        !.ret = IF w.error = "none" THEN nextId ELSE NoId]
  /\ UNCHANGED <<wsService, listening, clients, readyState, wsUserId, closeCode, now, appVars>>

\* createNotification(notificationData); storeUp: the store answers
CreateNotification(userId, type, storeUp, sendThrows) ==
  /\ nextId <= MaxNotifs
  /\ LET w == IF storeUp THEN PrismaCreate(notifications, nextId, userId, type)
                         ELSE [error |-> "unavailable", table |-> notifications]
     IN
     IF w.error # "none"
       THEN /\ last' = [Call("createNotification", userId, NoConn, nextId,
                             w.error, 0, <<>>)
                        EXCEPT !.up = storeUp]
            /\ UNCHANGED <<notifications, nextId, frames>>
       ELSE LET e == emitRealTimeNotification(nextId, userId, sendThrows) IN
            /\ notifications' = w.table
            /\ nextId' = nextId + 1
            /\ frames' = e.frames
            /\ last' = [Call("createNotification", userId, NoConn, nextId,
                             IF e.threw THEN "send failed" ELSE "ok", 0, <<>>)
                        EXCEPT !.push = e.push,
                               !.ret = IF e.threw THEN NoId ELSE nextId]
  /\ UNCHANGED <<wsService, listening, clients, readyState, wsUserId, closeCode, now, appVars>>

AnyFilter == [type |-> Types, read |-> BOOLEAN]

\* Mutant: the query leaves the userId out of the filter.
getUserNotifications_anyUser(userId, filters, page, limit) ==
  LET where == Where(Ids, UserIds, filters.read, filters.type)
      total == PrismaCount(notifications, where)
  IN [notifications |->
        PrismaFindMany(notifications, where, (page - 1) * limit, limit),
      total |-> total,
      hasNext |-> page * limit < total]

\* Mutant: skip is page * limit instead of (page - 1) * limit.
getUserNotifications_skipPage(userId, filters, page, limit) ==
  LET where == Where(Ids, {userId}, filters.read, filters.type)
      total == PrismaCount(notifications, where)
  IN [notifications |->
        PrismaFindMany(notifications, where, page * limit, limit),
      total |-> total,
      hasNext |-> page * limit < total]

\* getUserNotifications(userId, filters, pagination)
getUserNotifications(userId, filters, page, limit) ==
  LET where == Where(Ids, {userId}, filters.read, filters.type)
      total == PrismaCount(notifications, where)
  IN [notifications |->
        PrismaFindMany(notifications, where, (page - 1) * limit, limit),
      total |-> total,
      hasNext |-> page * limit < total]

\* Mutant: the count is not restricted to unread rows.
getUnreadCount_ignoresRead(userId) ==
  [unreadCount |->
     PrismaCount(notifications, Where(Ids, {userId}, BOOLEAN, Types))]

\* getUnreadCount(userId)
getUnreadCount(userId) ==
  [unreadCount |->
     PrismaCount(notifications, Where(Ids, {userId}, {FALSE}, Types))]

\* Mutant: the lookup does not restrict the owner.
markAsRead_anyOwner(notificationId, userId) ==
  LET found == PrismaFindFirst(notifications,
                 Where({notificationId}, UserIds, BOOLEAN, Types))
  IN IF found = NoId
       THEN [error |-> NOT_FOUND, table |-> notifications]
       ELSE PrismaUpdate(notifications, notificationId, TRUE)

\* Mutant: the update flips the read flag instead of setting it.
markAsRead_toggle(notificationId, userId) ==
  LET found == PrismaFindFirst(notifications,
                 Where({notificationId}, {userId}, BOOLEAN, Types))
  IN IF found = NoId
       THEN [error |-> NOT_FOUND, table |-> notifications]
       ELSE PrismaUpdate(notifications, notificationId,
                         ~notifications[notificationId].read)

\* markAsRead(notificationId, userId)
markAsRead(notificationId, userId) ==
  LET found == PrismaFindFirst(notifications,
                 Where({notificationId}, {userId}, BOOLEAN, Types))
  IN IF found = NoId
       THEN [error |-> NOT_FOUND, table |-> notifications]
       ELSE PrismaUpdate(notifications, notificationId, TRUE)

\* Mutant: markAllAsRead leaves the userId out of the filter.
markAllAsRead_everyUser(userId) ==
  PrismaUpdateMany(notifications, Where(Ids, UserIds, {FALSE}, Types), TRUE)

\* Mutant: markAllAsRead writes read = false into the user's read rows.
markAllAsRead_unread(userId) ==
  PrismaUpdateMany(notifications, Where(Ids, {userId}, {TRUE}, Types), FALSE)

\* markAllAsRead(userId)
markAllAsRead(userId) ==
  PrismaUpdateMany(notifications, Where(Ids, {userId}, {FALSE}, Types), TRUE)

\* Mutant: deleteNotification does not look at the owner.
deleteNotification_anyOwner(notificationId, userId) ==
  LET found == PrismaFindFirst(notifications,
                 Where({notificationId}, UserIds, BOOLEAN, Types))
  IN IF found = NoId
       THEN [error |-> NOT_FOUND, table |-> notifications]
       ELSE PrismaDelete(notifications, notificationId)

\* deleteNotification(notificationId, userId)
deleteNotification(notificationId, userId) ==
  LET found == PrismaFindFirst(notifications,
                 Where({notificationId}, {userId}, BOOLEAN, Types))
  IN IF found = NoId
       THEN [error |-> NOT_FOUND, table |-> notifications]
       ELSE PrismaDelete(notifications, notificationId)

\* Mutant: the sweep does not look at the read flag.
deleteOldNotifications_anyRead(olderThanDays) ==
  LET cutoffDate == now - olderThanDays
      result == PrismaDeleteMany(notifications,
                                 Where(Ids, UserIds, BOOLEAN, Types), cutoffDate)
  IN [deletedCount |-> result.count, table |-> result.table]

\* deleteOldNotifications(olderThanDays)
deleteOldNotifications(olderThanDays) ==
  LET cutoffDate == now - olderThanDays
      result == PrismaDeleteMany(notifications,
                                 Where(Ids, UserIds, {TRUE}, Types), cutoffDate)
  IN [deletedCount |-> result.count, table |-> result.table]

\* olderThanDays when the caller gives none
DefaultOlderThanDays == 30

\* The ages the sweep is called with
Ages == {0, 1, DefaultOlderThanDays}

DeleteOldNotifications(olderThanDays) ==
  /\ LET r == deleteOldNotifications(olderThanDays) IN
     /\ notifications' = r.table
     /\ last' = [Call("deleteOldNotifications", NoUser, NoConn, NoId, "ok",
                      r.deletedCount,
                      Descending({i \in Ids : notifications[i].exists
                                               /\ ~r.table[i].exists}))
                 EXCEPT !.days = olderThanDays]
  /\ UNCHANGED <<gatewayVars, nextId, now, appVars>>

\* A day passes.
Tick ==
  /\ now < MaxDays
  /\ now' = now + 1
  /\ last' = Call("tick", NoUser, NoConn, NoId, "ok", 0, <<>>)
  /\ UNCHANGED <<gatewayVars, notifications, nextId, appVars>>

MarkAsRead(notificationId, userId) ==
  /\ LET r == markAsRead(notificationId, userId) IN
     /\ notifications' = r.table
     /\ last' = [Call("markAsRead", userId, NoConn, notificationId,
                      IF r.error = "none" THEN "ok" ELSE r.error, 0, <<>>)
                 EXCEPT !.ret = IF r.error = "none" THEN notificationId
                                                    ELSE NoId]
  /\ UNCHANGED <<gatewayVars, nextId, now, appVars>>

MarkAllAsRead(userId) ==
  /\ LET r == markAllAsRead(userId) IN
     /\ notifications' = r.table
     /\ last' = Call("markAllAsRead", userId, NoConn, NoId, "ok", r.count, <<>>)
  /\ UNCHANGED <<gatewayVars, nextId, now, appVars>>

DeleteNotification(notificationId, userId) ==
  /\ LET r == deleteNotification(notificationId, userId) IN
     /\ notifications' = r.table
     /\ last' = Call("deleteNotification", userId, NoConn, notificationId,
                     IF r.error = "none" THEN "ok" ELSE r.error, 0, <<>>)
  /\ UNCHANGED <<gatewayVars, nextId, now, appVars>>

\* markAsRead up to the answer of findFirst: the call fails if there is no
\* such row of the user, and goes on to the update otherwise.
MarkAsReadFind(notificationId, userId) ==
  /\ markPending[userId] = NoId
  /\ LET found == PrismaFindFirst(notifications,
                    Where({notificationId}, {userId}, BOOLEAN, Types))
     IN IF found = NoId
          THEN /\ last' = Call("markAsRead", userId, NoConn, notificationId,
                               NOT_FOUND, 0, <<>>)
               /\ UNCHANGED markPending
          ELSE /\ last' = Call("markAsRead.findFirst", userId, NoConn,
                               notificationId, "ok", 0, <<>>)
               /\ markPending' = [markPending EXCEPT ![userId] = notificationId]
  /\ UNCHANGED <<gatewayVars, storeVars, callVars>>

\* markAsRead from the update on: what the update raises is rethrown.
MarkAsReadUpdate(userId) ==
  /\ markPending[userId] # NoId
  /\ LET r == PrismaUpdate(notifications, markPending[userId], TRUE) IN
     /\ notifications' = r.table
     /\ last' = [Call("markAsRead", userId, NoConn, markPending[userId],
                      IF r.error = "none" THEN "ok" ELSE r.error, 0, <<>>)
                 EXCEPT !.ret = IF r.error = "none" THEN markPending[userId]
                                                    ELSE NoId]
  /\ markPending' = [markPending EXCEPT ![userId] = NoId]
  /\ UNCHANGED <<gatewayVars, nextId, now, callVars>>

GetUnreadCount(userId) ==
  /\ last' = Call("getUnreadCount", userId, NoConn, NoId, "ok",
                  getUnreadCount(userId).unreadCount, <<>>)
  /\ UNCHANGED <<gatewayVars, storeVars, appVars>>

PageLimit == 10

GetUserNotifications(userId) ==
  /\ LET r == getUserNotifications(userId, AnyFilter, 1, PageLimit) IN
     last' = Call("getUserNotifications", userId, NoConn, NoId, "ok",
                  r.total, r.notifications)
  /\ UNCHANGED <<gatewayVars, storeVars, appVars>>

\* sendNotificationToUser called on the gateway, as emitRealTimeNotification
\* calls it; the payload is the notification's id
SendNotificationToUser(userId, notification) ==
  /\ wsService
  /\ (clients[userId] # NoConn /\ readyState[clients[userId]] = "OPEN")
       => Len(frames[clients[userId]]) < MaxFrames
  /\ LET r == sendNotificationToUser(userId, notification) IN
     /\ frames' = r.frames
     /\ last' = [Call("sendNotificationToUser", userId, clients[userId],
                      notification, "ok", 0, <<>>)
                 EXCEPT !.push = IF r.sent THEN "sent" ELSE "notConnected"]
  /\ UNCHANGED <<wsService, listening, clients, readyState, wsUserId, closeCode, storeVars, appVars>>

\* Mutant: sentCount is incremented for every entry visited.
BroadcastEntry_countsAll(acc, userId, message) ==
  LET client == clients[userId] IN
  IF readyState[client] = "OPEN"
    THEN [clients |-> acc.clients,
          frames |-> WsSend(acc.frames, client, Frame("broadcast", message)),
          sentCount |-> acc.sentCount + 1]
    ELSE [clients |-> ClientsDelete(acc.clients, userId),
          frames |-> acc.frames,
          sentCount |-> acc.sentCount + 1]

\* The callback broadcast gives this.clients.forEach, for one entry
BroadcastEntry(acc, userId, message) ==
  LET client == clients[userId] IN
  IF readyState[client] = "OPEN"
    THEN [clients |-> acc.clients,
          frames |-> WsSend(acc.frames, client, Frame("broadcast", message)),
          sentCount |-> acc.sentCount + 1]
    ELSE [clients |-> ClientsDelete(acc.clients, userId),
          frames |-> acc.frames,
          sentCount |-> acc.sentCount]

\* this.clients.forEach over the entries still to visit; deleting the entry
\* being visited does not disturb the iteration of a Map.
RECURSIVE BroadcastLoop(_, _, _)
BroadcastLoop(todo, acc, message) ==
  IF todo = {} THEN acc
  ELSE LET userId == CHOOSE u \in todo : TRUE
       IN BroadcastLoop(todo \ {userId},
                        BroadcastEntry(acc, userId, message), message)

\* broadcast(message)
broadcast(message) ==
  BroadcastLoop({u \in UserIds : clients[u] # NoConn},
                [clients |-> clients, frames |-> frames, sentCount |-> 0],
                message)

\* A call of broadcast; ids lists the connections whose entry it removed.
Broadcast(message) ==
  /\ wsService
  /\ \A u \in UserIds :
       (clients[u] # NoConn /\ readyState[clients[u]] = "OPEN")
         => Len(frames[clients[u]]) < MaxFrames
  /\ LET r == broadcast(message) IN
     /\ clients' = r.clients
     /\ frames' = r.frames
     /\ last' = Call("broadcast", NoUser, NoConn, message, "ok", r.sentCount,
                     Descending({clients[u] : u \in
                       {v \in UserIds : clients[v] # NoConn
                                          /\ r.clients[v] = NoConn}}))
  /\ UNCHANGED <<wsService, listening, readyState, wsUserId, closeCode, storeVars, appVars>>

\* What this.wss.close does to the connections the server accepted: releases
\* of the ws library before 8 terminate every one of them, later releases leave
\* them alone. The repository does not pin the release.
WssCloseTerminates == BOOLEAN

\* close(): this.wss.close(callback) and nothing else; the registry is not
\* touched. A terminated connection emits 'close' later, on its own.
Close(terminates) ==
  /\ wsService
  /\ listening
  /\ listening' = FALSE
  /\ readyState' = IF terminates
                     THEN [c \in Conns |-> IF readyState[c] = "OPEN"
                                             THEN "CLOSING" ELSE readyState[c]]
                     ELSE readyState
  /\ last' = Call("wsService.close", NoUser, NoConn, NoId, "ok", 0, <<>>)
  /\ UNCHANGED <<wsService, clients, wsUserId, closeCode, frames, storeVars, appVars>>

\* ------------------------------------------------- SimpleMessagingService
\* The notification for the counterparty, inside its own try/catch: what
\* createNotification writes and pushes, or nothing when it raises.
NotifyCounterparty(userId, type, storeUp) ==
  LET w == IF storeUp THEN PrismaCreate(notifications, nextId, userId, type)
                      ELSE [error |-> "unavailable", table |-> notifications]
  IN IF w.error # "none"
       THEN [failed |-> TRUE, table |-> notifications, nextId |-> nextId,
             frames |-> frames]
       ELSE [failed |-> FALSE, table |-> w.table, nextId |-> nextId + 1,
             frames |-> emitRealTimeNotification(nextId, userId, FALSE).frames]

\* prisma.conversation.findFirst: a conversation that is not a group and has
\* both users among its participants, or null
FindDirectConversation(a, b) ==
  LET hits == {c \in CallIds : /\ conversations[c].exists
                               /\ ~conversations[c].isGroup
                               /\ a \in conversations[c].participants
                               /\ b \in conversations[c].participants}
  IN IF hits = {} THEN 0 ELSE CHOOSE c \in hits : \A d \in hits : c <= d

\* sendMessage up to the lookup of the recipient
SendMessageFindRecipient(k, senderId, recipientId) ==
  /\ calls[k].pc = "idle"
  /\ senderId # recipientId
  /\ calls' = [calls EXCEPT ![k] =
       IF recipientId \in Users
         THEN [NoCall EXCEPT !.op = "sendMessage", !.user = senderId,
                             !.target = recipientId, !.pc = "findConversation"]
         ELSE [NoCall EXCEPT !.op = "sendMessage", !.user = senderId,
                             !.target = recipientId, !.pc = "done",
                             !.res = "Destinataire introuvable"]]
  /\ UNCHANGED <<gatewayVars, storeVars, markPending, conversations, messages,
                 applications, registrations, last>>

\* sendMessage: conversation.findFirst
SendMessageFindConversation(k) ==
  /\ calls[k].op = "sendMessage"
  /\ calls[k].pc = "findConversation"
  /\ LET found == FindDirectConversation(calls[k].user, calls[k].target) IN
     calls' = [calls EXCEPT ![k].found = found,
                            ![k].pc = IF found = 0 THEN "createConversation"
                                                   ELSE "createMessage"]
  /\ UNCHANGED <<gatewayVars, storeVars, markPending, conversations, messages,
                 applications, registrations, last>>

\* sendMessage: conversation.create with the two participants
SendMessageCreateConversation(k) ==
  /\ calls[k].op = "sendMessage"
  /\ calls[k].pc = "createConversation"
  /\ conversations' = [conversations EXCEPT ![k] =
       [exists |-> TRUE, participants |-> {calls[k].user, calls[k].target},
        isGroup |-> FALSE]]
  /\ calls' = [calls EXCEPT ![k].found = k, ![k].pc = "createMessage"]
  /\ UNCHANGED <<gatewayVars, storeVars, markPending, messages, applications,
                 registrations, last>>

\* sendMessage: message.create in the conversation found or created
SendMessageCreateMessage(k) ==
  /\ calls[k].op = "sendMessage"
  /\ calls[k].pc = "createMessage"
  /\ messages' = [messages EXCEPT ![k] =
       [exists |-> TRUE, conversationId |-> calls[k].found,
        senderId |-> calls[k].user, recipientId |-> calls[k].target]]
  /\ calls' = [calls EXCEPT ![k].pc = "notify"]
  /\ UNCHANGED <<gatewayVars, storeVars, markPending, conversations,
                 applications, registrations, last>>

\* Mutant: the notification of sendMessage and applyToOpportunity has no
\* try/catch of its own.
Notify_noCatch(k, type, to, storeUp) ==
  /\ calls[k].pc = "notify"
  /\ storeUp => nextId <= MaxNotifs
  /\ LET n == NotifyCounterparty(to, type, storeUp) IN
     /\ notifications' = n.table
     /\ nextId' = n.nextId
     /\ frames' = n.frames
     /\ calls' = [calls EXCEPT ![k].pc = "done",
                               ![k].res = IF n.failed THEN "unavailable"
                                                      ELSE "ok",
                               ![k].ret = IF n.failed THEN 0 ELSE k]
  /\ UNCHANGED <<wsService, listening, clients, readyState, wsUserId, closeCode,
                 now, markPending, conversations, messages, applications,
                 registrations, last>>

\* The end of sendMessage and of applyToOpportunity: the notification in its
\* try/catch, then return of the entity persisted
Notify(k, type, to, storeUp) ==
  /\ calls[k].pc = "notify"
  /\ storeUp => nextId <= MaxNotifs
  /\ LET n == NotifyCounterparty(to, type, storeUp) IN
     /\ notifications' = n.table
     /\ nextId' = n.nextId
     /\ frames' = n.frames
     /\ calls' = [calls EXCEPT ![k].pc = "done", ![k].res = "ok", ![k].ret = k]
  /\ UNCHANGED <<wsService, listening, clients, readyState, wsUserId, closeCode,
                 now, markPending, conversations, messages, applications,
                 registrations, last>>

\* sendMessage: createMessageNotification for the recipient
SendMessageNotify(k, storeUp) ==
  /\ calls[k].op = "sendMessage"
  /\ Notify(k, "MESSAGE", calls[k].target, storeUp)

\* --------------------------------------------------- OpportunitiesService
\* The opportunities there are: one that is active, one that is closed
OpportunityIds == {"o1", "o2"}
opportunities ==
  [o \in OpportunityIds |->
     IF o = "o1" THEN [authorId |-> "u1", status |-> "ACTIVE"]
                 ELSE [authorId |-> "u2", status |-> "CLOSED"]]

\* prisma.application.findUnique({where: {opportunityId_applicantId}})
FindApplication(opportunityId, applicantId) ==
  \E a \in CallIds : /\ applications[a].exists
                     /\ applications[a].opportunityId = opportunityId
                     /\ applications[a].applicantId = applicantId

\* Mutant: the application table has no unique index.
PrismaCreateApplication_noIndex(k, opportunityId, applicantId) ==
  [error |-> "none",
   table |-> [applications EXCEPT ![k] =
                [exists |-> TRUE, opportunityId |-> opportunityId,
                 applicantId |-> applicantId]]]

\* prisma.application.create: (opportunityId, applicantId) is a unique index
PrismaCreateApplication(k, opportunityId, applicantId) ==
  IF FindApplication(opportunityId, applicantId)
    THEN [error |-> "P2002", table |-> applications]
    ELSE [error |-> "none",
          table |-> [applications EXCEPT ![k] =
                       [exists |-> TRUE, opportunityId |-> opportunityId,
                        applicantId |-> applicantId]]]

\* applyToOpportunity up to the checks on the opportunity
ApplyFindOpportunity(k, opportunityId, applicantId) ==
  /\ calls[k].pc = "idle"
  /\ LET c == [NoCall EXCEPT !.op = "applyToOpportunity",
                             !.user = applicantId, !.target = opportunityId]
         rejected(reason) == [c EXCEPT !.pc = "done", !.res = reason]
     IN calls' = [calls EXCEPT ![k] =
          IF opportunityId \notin OpportunityIds
            THEN rejected("Opportunité non trouvée")
          ELSE IF opportunities[opportunityId].status # "ACTIVE"
            THEN rejected("Cette opportunité n'est plus active")
          ELSE IF opportunities[opportunityId].authorId = applicantId
            THEN rejected("Vous ne pouvez pas postuler à votre propre opportunité")
          ELSE [c EXCEPT !.pc = "findApplication"]]
  /\ UNCHANGED <<gatewayVars, storeVars, markPending, conversations, messages,
                 applications, registrations, last>>

\* applyToOpportunity: the lookup of an application already made
ApplyFindApplication(k) ==
  /\ calls[k].op = "applyToOpportunity"
  /\ calls[k].pc = "findApplication"
  /\ calls' = [calls EXCEPT ![k] =
       IF FindApplication(calls[k].target, calls[k].user)
         THEN [@ EXCEPT !.pc = "done",
                        !.res = "Vous avez déjà postulé à cette opportunité"]
         ELSE [@ EXCEPT !.pc = "createApplication"]]
  /\ UNCHANGED <<gatewayVars, storeVars, markPending, conversations, messages,
                 applications, registrations, last>>

\* applyToOpportunity: application.create; what it raises is rethrown
ApplyCreateApplication(k) ==
  /\ calls[k].op = "applyToOpportunity"
  /\ calls[k].pc = "createApplication"
  /\ LET r == PrismaCreateApplication(k, calls[k].target, calls[k].user) IN
     /\ applications' = r.table
     /\ calls' = [calls EXCEPT ![k] =
          IF r.error = "none" THEN [@ EXCEPT !.pc = "notify"]
                              ELSE [@ EXCEPT !.pc = "done", !.res = r.error]]
  /\ UNCHANGED <<gatewayVars, storeVars, markPending, conversations, messages,
                 registrations, last>>

\* applyToOpportunity: createNotification for the author of the opportunity
ApplyNotify(k, storeUp) ==
  /\ calls[k].op = "applyToOpportunity"
  /\ Notify(k, "APPLICATION_UPDATE", opportunities[calls[k].target].authorId,
            storeUp)

\* ----------------------------------------------------------- EventsService
\* The event there is: upcoming, not started yet, with room for one attendee
EventIds == {"e1"}
MaxAttendees == 1

\* _count.registrations of the event
CountRegistrations(eventId) ==
  Cardinality({r \in CallIds : /\ registrations[r].exists
                               /\ registrations[r].eventId = eventId})

\* prisma.eventRegistration.findUnique({where: {eventId_userId}}): its id, or
\* null
FindRegistration(eventId, userId) ==
  LET hits == {r \in CallIds : /\ registrations[r].exists
                               /\ registrations[r].eventId = eventId
                               /\ registrations[r].userId = userId}
  IN IF hits = {} THEN 0 ELSE CHOOSE r \in hits : TRUE

\* registerForEvent up to the checks on the event, with the number of
\* registrations the event is read with
RegisterFindEvent(k, eventId, userId) ==
  /\ calls[k].pc = "idle"
  /\ LET c == [NoCall EXCEPT !.op = "registerForEvent", !.user = userId,
                             !.target = eventId]
     IN calls' = [calls EXCEPT ![k] =
          IF eventId \notin EventIds
            THEN [c EXCEPT !.pc = "done", !.res = "Événement non trouvé"]
          ELSE IF CountRegistrations(eventId) >= MaxAttendees
            THEN [c EXCEPT !.pc = "done", !.res = "L'événement est complet"]
          ELSE [c EXCEPT !.pc = "findRegistration"]]
  /\ UNCHANGED <<gatewayVars, storeVars, markPending, conversations, messages,
                 applications, registrations, last>>

\* registerForEvent: the lookup of a registration already made
RegisterFindRegistration(k) ==
  /\ calls[k].op = "registerForEvent"
  /\ calls[k].pc = "findRegistration"
  /\ calls' = [calls EXCEPT ![k] =
       IF FindRegistration(calls[k].target, calls[k].user) # 0
         THEN [@ EXCEPT !.pc = "done",
                        !.res = "Vous êtes déjà inscrit à cet événement"]
         ELSE [@ EXCEPT !.pc = "createRegistration"]]
  /\ UNCHANGED <<gatewayVars, storeVars, markPending, conversations, messages,
                 applications, registrations, last>>

\* registerForEvent: eventRegistration.create, (eventId, userId) being a
\* unique index; the notification that follows is not written yet
RegisterCreateRegistration(k) ==
  /\ calls[k].op = "registerForEvent"
  /\ calls[k].pc = "createRegistration"
  /\ IF FindRegistration(calls[k].target, calls[k].user) # 0
       THEN /\ calls' = [calls EXCEPT ![k].pc = "done", ![k].res = "P2002"]
            /\ UNCHANGED registrations
       ELSE /\ registrations' = [registrations EXCEPT ![k] =
                 [exists |-> TRUE, eventId |-> calls[k].target,
                  userId |-> calls[k].user]]
            /\ calls' = [calls EXCEPT ![k].pc = "done", ![k].res = "ok",
                                      ![k].ret = k]
  /\ UNCHANGED <<gatewayVars, storeVars, markPending, conversations, messages,
                 applications, last>>

\* unregisterFromEvent up to the lookup of the registration
UnregisterFindRegistration(k, eventId, userId) ==
  /\ calls[k].pc = "idle"
  /\ LET c == [NoCall EXCEPT !.op = "unregisterFromEvent", !.user = userId,
                             !.target = eventId]
         found == FindRegistration(eventId, userId)
     IN calls' = [calls EXCEPT ![k] =
          IF found = 0
            THEN [c EXCEPT !.pc = "done", !.res = "Inscription non trouvée"]
            ELSE [c EXCEPT !.pc = "deleteRegistration", !.found = found]]
  /\ UNCHANGED <<gatewayVars, storeVars, markPending, conversations, messages,
                 applications, registrations, last>>

\* unregisterFromEvent: eventRegistration.delete({where: {id}})
UnregisterDeleteRegistration(k) ==
  /\ calls[k].op = "unregisterFromEvent"
  /\ calls[k].pc = "deleteRegistration"
  /\ IF registrations[calls[k].found].exists
       THEN /\ registrations' = [registrations EXCEPT ![calls[k].found] =
                                   NoRegistration]
            /\ calls' = [calls EXCEPT ![k].pc = "done", ![k].res = "ok"]
       ELSE /\ calls' = [calls EXCEPT ![k].pc = "done", ![k].res = "P2025"]
            /\ UNCHANGED registrations
  /\ UNCHANGED <<gatewayVars, storeVars, markPending, conversations, messages,
                 applications, last>>

\* ----------------------------------------------------------- specification
\* Handshakes that carry a valid token, or none, in the query string.
QueryRequests ==
  {[query |-> t, header |-> NoToken] : t \in Tokens \ [kind : {"expired", "forged"}, userId : Users]}

Lifecycle(requests) ==
  \/ StartGateway
  \/ \E ws \in Conns, request \in requests : HandleConnection(ws, request)
  \/ \E ws \in Conns : PeerClose(ws)
  \/ \E ws \in Conns : EmitClose(ws)
  \/ \E ws \in Conns : EmitError(ws)

Create(types) ==
  \E u \in UserIds, t \in types, storeUp \in BOOLEAN :
    CreateNotification(u, t, storeUp, FALSE)

CreateOrSendThrows(types) ==
  \E u \in UserIds, t \in types, storeUp \in BOOLEAN, sendThrows \in BOOLEAN :
    CreateNotification(u, t, storeUp, sendThrows)

\* The notification path: connections come and go while notifications are
\* created and pushed.
Next ==
  \/ Lifecycle(QueryRequests)
  \/ Create({"MESSAGE"})

Spec == Init /\ [][Next]_vars

\* The notification path when the gateway's send may raise an exception.
FaultNext ==
  \/ Lifecycle(QueryRequests)
  \/ CreateOrSendThrows({"MESSAGE"})

FaultSpec == Init /\ [][FaultNext]_vars

\* The notification service on its own.
StoreNext ==
  \/ StartGateway
  \/ Create({"MESSAGE", "SYSTEM"})
  \/ \E i \in Ids, u \in Users : MarkAsRead(i, u)
  \/ \E u \in Users : MarkAllAsRead(u)
  \/ \E i \in Ids, u \in Users : DeleteNotification(i, u)
  \/ \E u \in Users : GetUnreadCount(u)
  \/ \E u \in Users : GetUserNotifications(u)

StoreSpec == Init /\ [][StoreNext]_vars

\* The gateway on its own: any caller may ask it to deliver a payload, which
\* the gateway never inspects.
Payloads == {1}

GatewayNext ==
  \/ Lifecycle(Requests)
  \/ \E u \in Users, p \in Payloads : SendNotificationToUser(u, p)

GatewaySpec == Init /\ [][GatewayNext]_vars

\* The clients talk: frames arrive on the connections of one user while these
\* come and go; a connection that was replaced still has its listeners.
MessageRequests ==
  {[query |-> [kind |-> "valid", userId |-> "u1"], header |-> NoToken]}

MessageNext ==
  \/ Lifecycle(MessageRequests)
  \/ \E ws \in Conns, data \in ClientFrames : OnMessage(ws, data)

MessageSpec == Init /\ [][MessageNext]_vars

\* Requests overlap: markAsRead is two store calls, and a delete or a sweep
\* may come between them. The notifications are one user's; the other user's
\* requests find nothing.
RaceNext ==
  \/ CreateNotification("u1", "MESSAGE", TRUE, FALSE)
  \/ \E i \in Ids, u \in Users : MarkAsReadFind(i, u)
  \/ \E u \in Users : MarkAsReadUpdate(u)
  \/ \E i \in Ids, u \in Users : DeleteNotification(i, u)
  \/ \E d \in Ages : DeleteOldNotifications(d)
  \/ Tick

RaceSpec == Init /\ [][RaceNext]_vars

\* Messages and applications: calls of sendMessage and applyToOpportunity
\* overlap at their store calls, and the notification may fail.
ServicesNext ==
  \/ \E k \in CallIds, s \in Users, r \in UserIds :
       SendMessageFindRecipient(k, s, r)
  \/ \E k \in CallIds : SendMessageFindConversation(k)
  \/ \E k \in CallIds : SendMessageCreateConversation(k)
  \/ \E k \in CallIds : SendMessageCreateMessage(k)
  \/ \E k \in CallIds, storeUp \in BOOLEAN : SendMessageNotify(k, storeUp)
  \/ \E k \in CallIds, o \in OpportunityIds \cup {"none"}, a \in Users :
       ApplyFindOpportunity(k, o, a)
  \/ \E k \in CallIds : ApplyFindApplication(k)
  \/ \E k \in CallIds : ApplyCreateApplication(k)
  \/ \E k \in CallIds, storeUp \in BOOLEAN : ApplyNotify(k, storeUp)

ServicesSpec == Init /\ [][ServicesNext]_vars

\* Registrations: calls of registerForEvent and unregisterFromEvent by the
\* users overlap at their store calls.
EventNext ==
  \/ \E k \in CallIds, e \in EventIds \cup {"none"}, u \in Users :
       RegisterFindEvent(k, e, u)
  \/ \E k \in CallIds : RegisterFindRegistration(k)
  \/ \E k \in CallIds : RegisterCreateRegistration(k)
  \/ \E k \in CallIds, e \in EventIds, u \in Users :
       UnregisterFindRegistration(k, e, u)
  \/ \E k \in CallIds : UnregisterDeleteRegistration(k)

EventSpec == Init /\ [][EventNext]_vars

\* The life of a notification: every operation that writes the table, while
\* the days pass.
SweepNext ==
  \/ Create({"MESSAGE"})
  \/ \E i \in Ids, u \in Users : MarkAsRead(i, u)
  \/ \E u \in Users : MarkAllAsRead(u)
  \/ \E i \in Ids, u \in Users : DeleteNotification(i, u)
  \/ \E d \in Ages : DeleteOldNotifications(d)
  \/ Tick

SweepSpec == Init /\ [][SweepNext]_vars

\* The registry under every operation that writes it or the state of a
\* connection: handshakes of every kind, connection events, broadcast and
\* close().
RegistryNext ==
  \/ Lifecycle(Requests)
  \/ \E p \in Payloads : Broadcast(p)
  \/ \E t \in WssCloseTerminates : Close(t)

RegistrySpec == Init /\ [][RegistryNext]_vars

\* ------------------------------------------------------------------ claims
Open(ws) == ws # NoConn /\ readyState[ws] = "OPEN"

Unread(u) ==
  {i \in Ids : notifications[i].exists /\ notifications[i].userId = u
                 /\ notifications[i].read = FALSE}

\* C1 (as claimed): after a handshake that authenticates a second connection
\* for a user who already had a registered connection, the first connection is
\* closed and out of the registry, and the lookup gives the second connection.
C1_RegistryExclusivity ==
  (last.op = "handleConnection" /\ last.res = "authenticated" /\ last.n # NoConn)
    => /\ readyState[last.n] \in {"CLOSING", "CLOSED"}
       /\ \A u \in Users : clients[u] # last.n
       /\ clients[last.user] = last.conn

\* C8: a handshake whose credential is absent, invalid or expired closes the
\* connection with code 4001 and leaves the registry as it was.
C8_AuthFailureNeverRegisters ==
  [][(last'.op = "handleConnection"
        /\ ExtractToken(last'.request).kind \in {"absent", "forged", "expired"})
      => /\ closeCode'[last'.conn] = AUTH_CLOSE_CODE
         /\ readyState'[last'.conn] \in {"CLOSING", "CLOSED"}
         /\ clients' = clients
         /\ wsUserId'[last'.conn] = NoUser
         /\ \A u \in Users : clients'[u] # last'.conn]_vars

\* C8 witness: an expired token was just refused while the registry holds
\* an entry.
C8_Witness ==
  /\ last.op = "handleConnection"
  /\ ExtractToken(last.request).kind = "expired"
  /\ closeCode[last.conn] = AUTH_CLOSE_CODE
  /\ \E u \in Users : clients[u] # NoConn

\* C9: a handshake with a valid credential registers the connection under the
\* credential's user id, and the connection's first frame is the "connected"
\* acknowledgement: no notification frame precedes it on any connection.
C9_SuccessfulHandshake ==
  /\ (last.op = "handleConnection"
        /\ ExtractToken(last.request).kind = "valid")
       => /\ clients[ExtractToken(last.request).userId] = last.conn
          /\ wsUserId[last.conn] = ExtractToken(last.request).userId
          /\ frames[last.conn] = <<Frame("connected", NoId)>>
  /\ \A c \in Conns : \A k \in 1..Len(frames[c]) :
       frames[c][k].type = "notification"
         => k > 1 /\ frames[c][1].type = "connected"

\* C9 witness: a connection that was acknowledged and then got a notification.
C9_Witness ==
  \E c \in Conns :
    /\ Len(frames[c]) >= 2
    /\ frames[c][1].type = "connected"
    /\ frames[c][2].type = "notification"
    /\ clients[wsUserId[c]] = c

\* C10: sendNotificationToUser(U, payload) returns true and sends exactly one
\* notification frame, to U's registered connection, when that connection is
\* open; otherwise it returns false, sends nothing and throws nothing.
C10_DeliverResult ==
  [][last'.op = "sendNotificationToUser"
      => /\ last'.res = "ok"
         /\ IF Open(clients[last'.user])
              THEN /\ last'.push = "sent"
                   /\ frames' = [frames EXCEPT ![clients[last'.user]] =
                                   Append(@, Frame("notification", last'.id))]
              ELSE /\ last'.push = "notConnected"
                   /\ frames' = frames]_vars

\* C10 witness: a delivery that was refused because the registered connection
\* is no longer open, on a gateway that has delivered a frame before.
C10_Witness ==
  /\ last.op = "sendNotificationToUser"
  /\ last.push = "notConnected"
  /\ clients[last.user] # NoConn
  /\ \E k \in 1..Len(frames[clients[last.user]]) :
       frames[clients[last.user]][k].type = "notification"

\* C2: createNotification pushes only a notification its own store write has
\* completed: a frame sent by the call carries the id the call just wrote,
\* and when the write fails the error is surfaced, nothing is returned and no
\* frame is sent. No frame ever carries an id the store has not written.
C2_PersistThenPush ==
  [][/\ last'.op = "createNotification"
        => IF last'.up /\ last'.user \in Users
             THEN \A c \in Conns : frames'[c] # frames[c]
                    => /\ ~notifications[last'.id].exists
                       /\ notifications'[last'.id].exists
                       /\ notifications'[last'.id].userId = last'.user
                       /\ frames'[c] =
                            Append(frames[c], Frame("notification", last'.id))
             ELSE /\ last'.res \in {"P2003", "unavailable"}
                  /\ last'.ret = NoId
                  /\ last'.push = "none"
                  /\ frames' = frames
                  /\ notifications' = notifications
     /\ \A c \in Conns : \A k \in 1..Len(frames'[c]) :
          frames'[c][k].type = "notification" => frames'[c][k].id < nextId'
    ]_vars

\* C2 witness: a created notification was pushed to its user's connection.
C2_Witness ==
  /\ last.op = "createNotification"
  /\ last.push = "sent"
  /\ notifications[last.id].exists
  /\ frames[clients[last.user]][Len(frames[clients[last.user]])]
       = Frame("notification", last.id)

\* C3: whenever the store write of createNotification succeeds, the call
\* returns the persisted notification and the row is in the store, whether
\* the gateway is absent, the user has no open connection, or the send throws.
C3_PushNeverFailsTheWrite ==
  [][(last'.op = "createNotification" /\ last'.up /\ last'.user \in Users)
      => /\ last'.res = "ok"
         /\ last'.ret = last'.id
         /\ ~notifications[last'.id].exists
         /\ notifications'[last'.id].exists
         /\ notifications'[last'.id].userId = last'.user
         /\ \A i \in Ids : i # last'.id => notifications'[i] = notifications[i]
         /\ last'.push \in {"sent", "notConnected", "unavailable", "caught"}
    ]_vars

\* C3 witness: the send threw for a user whose connection is open, and the
\* call still returned the persisted notification.
C3_Witness ==
  /\ last.op = "createNotification"
  /\ last.push = "caught"
  /\ last.res = "ok"
  /\ notifications[last.id].exists
  /\ Open(clients[last.user])

\* C4: markAsRead or deleteNotification called by a user on a notification
\* another user owns fails with Not-Found, returns no notification and leaves
\* the store as it was.
C4_OwnershipIsolation ==
  [][(/\ last'.op \in {"markAsRead", "deleteNotification"}
      /\ notifications[last'.id].exists
      /\ notifications[last'.id].userId # last'.user)
      => /\ last'.res = NOT_FOUND
         /\ last'.ret = NoId
         /\ notifications' = notifications]_vars

\* C4 witness: a delete by a user who is not the owner was refused and the
\* owner's unread notification is still there.
C4_Witness ==
  /\ last.op = "deleteNotification"
  /\ last.res = NOT_FOUND
  /\ notifications[last.id].exists
  /\ notifications[last.id].userId # last.user
  /\ notifications[last.id].read = FALSE

\* C5: in every state getUnreadCount(U) is the number of notifications stored
\* for U with read = false; the count a call returned is that number; and it
\* is 1 once the first notification ever has been created for a user.
C5_UnreadCount ==
  /\ \A u \in Users : getUnreadCount(u).unreadCount = Cardinality(Unread(u))
  /\ last.op = "getUnreadCount" => last.n = Cardinality(Unread(last.user))
  /\ (last.op = "createNotification" /\ last.res = "ok" /\ last.id = 1)
       => getUnreadCount(last.user).unreadCount = 1

\* C5 witness: a count of 1 returned to a user who also has a read
\* notification.
C5_Witness ==
  /\ last.op = "getUnreadCount"
  /\ last.n = 1
  /\ \E i \in Ids : /\ notifications[i].exists
                    /\ notifications[i].userId = last.user
                    /\ notifications[i].read

\* C6: a successful markAsRead sets read; the same call made again right
\* after it succeeds, returns the same notification and changes nothing.
C6_MarkAsReadIdempotent ==
  [][/\ (last'.op = "markAsRead" /\ last'.res = "ok")
        => notifications'[last'.id].read = TRUE
     /\ (last.op = "markAsRead" /\ last.res = "ok"
           /\ last'.op = "markAsRead" /\ last'.again)
        => /\ last'.res = "ok"
           /\ last'.ret = last.ret
           /\ notifications' = notifications]_vars

\* C6 witness: the second of two successive markAsRead calls on the owner's
\* notification has returned.
C6_Witness ==
  /\ last.op = "markAsRead"
  /\ last.again
  /\ last.res = "ok"
  /\ notifications[last.id].read

\* C7: right after createNotification returns for a user without an open
\* connection, the notification is on the first page getUserNotifications
\* gives that user, whatever the page size, and it is unread.
C7_DurableWithoutConnection ==
  (last.op = "createNotification" /\ last.res = "ok"
     /\ ~Open(clients[last.user]))
    => /\ notifications[last.id].read = FALSE
       /\ \A limit \in {1, PageLimit} :
            \A filter \in {AnyFilter, [AnyFilter EXCEPT !.read = {FALSE}]} :
              LET page == getUserNotifications(last.user, filter, 1, limit)
              IN \E k \in 1..Len(page.notifications) :
                   page.notifications[k] = last.id

\* C7 witness: a second notification was created for a user whose registered
\* connection is no longer open.
C7_Witness ==
  /\ last.op = "createNotification"
  /\ last.res = "ok"
  /\ last.push = "notConnected"
  /\ last.id = 2
  /\ notifications[1].exists
  /\ notifications[1].userId = last.user
  /\ clients[last.user] # NoConn

\* C11 (as claimed): a delivery attempt for user U that finds U's registry
\* entry with a connection that is no longer open removes the entry for U,
\* and raises no error.
C11_FailedDeliveryCleansRegistry ==
  (last.op = "sendNotificationToUser" /\ last.conn # NoConn
     /\ readyState[last.conn] # "OPEN")
    => /\ last.res = "ok"
       /\ last.push = "notConnected"
       /\ clients[last.user] = NoConn

\* C12: broadcast(payload) sends the payload once to every registered
\* connection that is open and to no other, removes exactly the entries whose
\* connection is not open, and returns the number of connections it sent to.
C12_Broadcast ==
  [][last'.op = "broadcast"
      => /\ \A u \in UserIds :
              clients'[u] = IF Open(clients[u]) THEN clients[u] ELSE NoConn
         /\ \A c \in Conns :
              frames'[c] =
                IF Open(c) /\ \E u \in UserIds : clients[u] = c
                  THEN Append(frames[c], Frame("broadcast", last'.id))
                  ELSE frames[c]
         /\ last'.n = Cardinality({u \in UserIds : Open(clients[u])})
         /\ last'.res = "ok"]_vars

\* C12 witness: a broadcast reached one connection and removed the entry of
\* another.
C12_Witness ==
  /\ last.op = "broadcast"
  /\ last.n = 1
  /\ Len(last.ids) = 1
  /\ \E u \in Users : /\ Open(clients[u])
                      /\ frames[clients[u]][Len(frames[clients[u]])]
                           = Frame("broadcast", last.id)

\* C13 (as claimed): once close() has returned, no connection is open any
\* more and the registry is empty.
C13_CloseReleasesEverything ==
  last.op = "wsService.close"
    => /\ \A c \in Conns : readyState[c] # "OPEN"
       /\ \A u \in UserIds : clients[u] = NoConn

\* C14: every registry entry refers to a connection that passed the handshake
\* as that user and has not emitted 'close'; an entry appears only through
\* that connection's successful handshake, and the connection whose 'close'
\* or 'error' event was handled is in the registry no longer.
C14_RegistryEntriesAreLive ==
  /\ [](\A u \in UserIds :
          clients[u] # NoConn
            => /\ wsUserId[clients[u]] = u
               /\ readyState[clients[u]] \in {"OPEN", "CLOSING"}
               /\ closeCode[clients[u]] = 0)
  /\ [][/\ \A u \in UserIds :
             (clients'[u] # clients[u] /\ clients'[u] # NoConn)
               => /\ last'.op = "handleConnection"
                  /\ last'.res = "authenticated"
                  /\ last'.user = u
                  /\ last'.conn = clients'[u]
        /\ (last'.op \in {"close", "error"} /\ last' # last)
             => \A u \in UserIds : clients'[u] # last'.conn]_vars

\* C14 witness: one user's connection has disconnected and left the registry
\* while another user's entry is still there.
C14_Witness ==
  /\ last.op \in {"close", "error"}
  /\ last.user \in Users
  /\ clients[last.user] = NoConn
  /\ readyState[last.conn] \in {"CLOSING", "CLOSED"}
  /\ \E u \in Users : clients[u] # NoConn /\ Open(clients[u])

\* C15: the read flag of a notification never goes back from read to unread,
\* whatever operation is applied.
C15_ReadIsMonotone ==
  [][\A i \in Ids :
       (notifications[i].exists /\ notifications[i].read
          /\ notifications'[i].exists)
         => notifications'[i].read]_vars

\* C15 witness: markAllAsRead ran for a user who already had a read
\* notification, and the notification is still read.
C15_Witness ==
  /\ last.op = "markAllAsRead"
  /\ last.n = 1
  /\ Cardinality({i \in Ids : /\ notifications[i].exists
                              /\ notifications[i].userId = last.user
                              /\ notifications[i].read}) = 2

\* C16: no operation on an existing notification (markAsRead, markAllAsRead,
\* deleteNotification of another row, deleteOldNotifications) changes its type
\* or the user it is addressed to.
C16_TypeAndTargetAreFrozen ==
  [][\A i \in Ids :
       (notifications[i].exists /\ notifications'[i].exists)
         => /\ notifications'[i].type = notifications[i].type
            /\ notifications'[i].userId = notifications[i].userId]_vars

\* C16 witness: a notification was marked as read and is still of the type
\* and for the user it was created with.
C16_Witness ==
  /\ last.op = "markAsRead"
  /\ last.res = "ok"
  /\ notifications[last.id].exists
  /\ notifications[last.id].read
  /\ notifications[last.id].type = "MESSAGE"
  /\ notifications[last.id].userId = last.user

\* C17: deleteOldNotifications(olderThanDays) deletes exactly the
\* notifications that are read and were created before now - olderThanDays,
\* returns how many they are, and deletes no unread notification.
C17_SweepDeletesOldReadOnly ==
  [][last'.op = "deleteOldNotifications"
      => LET old == {i \in Ids : /\ notifications[i].exists
                                 /\ notifications[i].read
                                 /\ notifications[i].createdAt
                                      < now - last'.days}
         IN /\ \A i \in Ids :
                 notifications'[i] = IF i \in old THEN NoRow
                                                  ELSE notifications[i]
            /\ last'.n = Cardinality(old)
            /\ \A i \in Ids :
                 (notifications[i].exists /\ ~notifications[i].read)
                   => notifications'[i].exists]_vars

\* C17 witness: a sweep deleted one read notification and left alone a
\* notification created before the cutoff, which is therefore unread.
C17_Witness ==
  /\ last.op = "deleteOldNotifications"
  /\ last.n = 1
  /\ Len(last.ids) = 1
  /\ \E i \in Ids : /\ notifications[i].exists
                    /\ ~notifications[i].read
                    /\ notifications[i].createdAt < now - last.days

\* C18 (as claimed): a notification goes from unread to read by mark-as-read
\* only, and from read to gone by the sweep or an explicit delete only; it is
\* never taken from unread to gone, and an id that was used is never created
\* again.
C18_StateMachineAsClaimed ==
  [][\A i \in Ids :
       /\ (notifications[i].exists /\ notifications'[i].exists
             /\ notifications'[i].read # notifications[i].read)
            => /\ ~notifications[i].read
               /\ last'.op \in {"markAsRead", "markAllAsRead"}
       /\ (notifications[i].exists /\ ~notifications'[i].exists)
            => /\ notifications[i].read
               /\ last'.op \in {"deleteOldNotifications", "deleteNotification"}
       /\ (~notifications[i].exists /\ notifications'[i].exists)
            => i = nextId /\ nextId' = nextId + 1]_vars

\* C18 (amended): a notification is created unread under an id never used
\* before; it goes from unread to read only by its owner's markAsRead or
\* markAllAsRead; it goes away only by its owner's deleteNotification, whether
\* read or unread, or, if read, by the sweep; an id that was used is never
\* created again.
C18_StateMachine ==
  [][\A i \in Ids :
       /\ (notifications[i].exists /\ notifications'[i].exists
             /\ notifications'[i].read # notifications[i].read)
            => /\ ~notifications[i].read
               /\ last'.user = notifications[i].userId
               /\ \/ last'.op = "markAsRead" /\ last'.id = i
                  \/ last'.op = "markAllAsRead"
       /\ (notifications[i].exists /\ ~notifications'[i].exists)
            => \/ /\ last'.op = "deleteNotification"
                  /\ last'.id = i
                  /\ last'.user = notifications[i].userId
               \/ /\ last'.op = "deleteOldNotifications"
                  /\ notifications[i].read
       /\ (~notifications[i].exists /\ notifications'[i].exists)
            => /\ last'.op = "createNotification"
               /\ i = nextId
               /\ nextId' = nextId + 1
               /\ ~notifications'[i].read
       /\ nextId' >= nextId]_vars

\* C18 witness: its owner deleted a notification, whose id is not in use any
\* more, while another notification has been read and is still there.
C18_Witness ==
  /\ last.op = "deleteNotification"
  /\ last.res = "ok"
  /\ last.id < nextId
  /\ ~notifications[last.id].exists
  /\ \E i \in Ids : notifications[i].exists /\ notifications[i].read

\* The places, over all connections, where the frame of notification id was
\* sent.
Pushes(id) ==
  {p \in Conns \X (1..(MaxFrames + MaxNotifs + 1)) :
     /\ p[2] <= Len(frames[p[1]])
     /\ frames[p[1]][p[2]] = Frame("notification", id)}

\* C19: when createNotification succeeds for a user whose registered
\* connection is open, that connection receives the frame of that
\* notification once, as its next frame, and no other connection receives
\* anything; no notification is ever carried by two frames.
C19_ExactlyOncePush ==
  /\ [](\A i \in Ids : Cardinality(Pushes(i)) <= 1)
  /\ [][(/\ last'.op = "createNotification"
         /\ last'.res = "ok"
         /\ Open(clients[last'.user]))
          => /\ \A c \in Conns :
                  frames'[c] =
                    IF c = clients[last'.user]
                      THEN Append(frames[c], Frame("notification", last'.id))
                      ELSE frames[c]
             /\ Pushes(last'.id) = {}
             /\ last'.push = "sent"]_vars

\* C19 witness: two notifications were created for a connected user, and the
\* connection holds the frame of each of them once.
C19_Witness ==
  /\ last.op = "createNotification"
  /\ last.res = "ok"
  /\ last.id = 2
  /\ Open(clients[last.user])
  /\ \A i \in 1..2 : /\ Cardinality(Pushes(i)) = 1
                     /\ \A p \in Pushes(i) : p[1] = clients[last.user]

\* C20: markAllAsRead(U) returns the number of U's notifications that were
\* unread just before the call, leaves U with no unread notification, so that
\* getUnreadCount(U) is 0, and writes no row of another user.
C20_MarkAllAsRead ==
  [][last'.op = "markAllAsRead"
      => /\ last'.n = Cardinality(Unread(last'.user))
         /\ \A i \in Ids :
              notifications'[i] =
                IF i \in Unread(last'.user)
                  THEN [notifications[i] EXCEPT !.read = TRUE]
                  ELSE notifications[i]
         /\ PrismaCount(notifications',
                        Where(Ids, {last'.user}, {FALSE}, Types)) = 0]_vars

\* C20 witness: markAllAsRead marked the two unread notifications of a user.
C20_Witness ==
  /\ last.op = "markAllAsRead"
  /\ last.n = 2
  /\ getUnreadCount(last.user).unreadCount = 0
  /\ \A i \in Ids : notifications[i].exists /\ notifications[i].read
                      /\ notifications[i].userId = last.user

\* The frame the gateway answers a well-formed client frame with.
Answer(data) ==
  IF data.value = "object" /\ data.type = "ping" THEN Frame("pong", NoId)
  ELSE IF data.value = "object" /\ data.type = "subscribe"
    THEN Frame("subscribed", NoId)
  ELSE Frame("error", NoId)

Malformed(data) == ~data.json \/ data.value \in {"null", "scalar"}

\* C22: whatever frame arrives, and whether the connection is still open or
\* not, the message listener lets no exception escape and changes neither the
\* state of a connection nor the registry; a malformed frame on an open
\* connection is answered with one error frame, and on a connection that is
\* no longer open nothing is sent.
C22_MalformedFramesNeverCrash ==
  [][last'.op = "message"
      => /\ last'.res = "ok"
         /\ readyState' = readyState
         /\ clients' = clients
         /\ (readyState[last'.conn] = "OPEN" /\ Malformed(last'.data))
              => frames' = [frames EXCEPT ![last'.conn] =
                              Append(@, Frame("error", NoId))]
         /\ readyState[last'.conn] # "OPEN" => frames' = frames]_vars

\* C22 witness: text that is not JSON arrived on a registered connection,
\* which got an error frame and is still open and registered.
C22_Witness ==
  /\ last.op = "message"
  /\ ~last.data.json
  /\ last.res = "ok"
  /\ Open(last.conn)
  /\ clients[last.user] = last.conn
  /\ frames[last.conn][Len(frames[last.conn])] = Frame("error", NoId)

\* C23: the frame of a notification for user U is sent only to the connection
\* registered under U at that moment, which is authenticated as U, so no
\* connection of another user ever holds it; and getUserNotifications(V)
\* returns only notifications for V.
C23_OnlyTheTarget ==
  /\ [](/\ \A c \in Conns : \A k \in 1..Len(frames[c]) :
             (frames[c][k].type = "notification"
                /\ notifications[frames[c][k].id].exists)
               => wsUserId[c] = notifications[frames[c][k].id].userId
        /\ \A v \in Users : \A limit \in {1, PageLimit} :
             LET page == getUserNotifications(v, AnyFilter, 1, limit)
             IN \A k \in 1..Len(page.notifications) :
                  notifications[page.notifications[k]].userId = v)
  /\ [][last'.op = "createNotification"
         => \A c \in Conns :
              frames'[c] # frames[c]
                => /\ c = clients[last'.user]
                   /\ wsUserId[c] = last'.user
                   /\ notifications'[last'.id].userId = last'.user]_vars

\* C23 witness: both users are connected and each has a notification whose
\* frame is held by that user's connection and by no other, and whose row is
\* in that user's list.
C23_Witness ==
  \A u \in Users :
    /\ Open(clients[u])
    /\ \E i \in Ids :
         /\ notifications[i].exists
         /\ notifications[i].userId = u
         /\ Pushes(i) # {}
         /\ \A p \in Pushes(i) : p[1] = clients[u]
         /\ LET page == getUserNotifications(u, AnyFilter, 1, PageLimit)
            IN \E k \in 1..Len(page.notifications) : page.notifications[k] = i

\* C24 (as claimed): createNotification for a user id that references no user
\* fails with the Not-Found outcome (the service's own, or the store's
\* record-not-found), persists nothing and pushes nothing.
C24_CreateValidatesTarget ==
  (last.op = "createNotification" /\ last.up /\ last.user \notin Users)
    => /\ last.res \in {NOT_FOUND, "P2025"}
       /\ ~notifications[last.id].exists
       /\ last.push = "none"

\* C25 (as claimed): when the 'close' or 'error' event of a connection fires
\* while its user's registry entry is a newer connection, the entry is left
\* as it is.
C25_LateCloseKeepsSuccessor ==
  [][(/\ last'.op \in {"close", "error"}
      /\ last'.user # NoUser
      /\ clients[last'.user] # NoConn
      /\ clients[last'.user] # last'.conn)
      => clients'[last'.user] = clients[last'.user]]_vars

\* C26 (as claimed): when a delete or a sweep comes between the two store
\* calls of markAsRead, markAsRead succeeds or fails with Not-Found, never
\* with another error, and no deleted notification comes back.
C26_MarkAsReadRace ==
  [][last'.op = "markAsRead"
      => /\ last'.res \in {"ok", NOT_FOUND}
         /\ \A i \in Ids :
              ~notifications[i].exists => ~notifications'[i].exists]_vars

\* C27: once sendMessage has persisted the message, or applyToOpportunity the
\* application, the notification step, whether it fails or not, ends the call
\* with success, returns the persisted entity and leaves the message and
\* application tables as they are.
C27_PrimaryActionSurvives ==
  [][\A k \in CallIds :
       (calls[k].pc = "notify" /\ calls'[k].pc # "notify")
         => /\ calls'[k].pc = "done"
            /\ calls'[k].res = "ok"
            /\ calls'[k].ret = k
            /\ messages' = messages
            /\ applications' = applications
            /\ conversations' = conversations
            /\ IF calls[k].op = "sendMessage"
                 THEN messages[k].exists
                 ELSE applications[k].exists]_vars

\* C27 witness: a sendMessage and an applyToOpportunity have both returned
\* their entity although neither notification was written.
C27_Witness ==
  /\ \E k \in CallIds : /\ calls[k].op = "sendMessage"
                        /\ calls[k].pc = "done" /\ calls[k].res = "ok"
                        /\ messages[k].exists
  /\ \E k \in CallIds : /\ calls[k].op = "applyToOpportunity"
                        /\ calls[k].pc = "done" /\ calls[k].res = "ok"
                        /\ applications[k].exists
  /\ \A i \in Ids : ~notifications[i].exists

\* C28 (as claimed): however calls of registerForEvent and unregisterFromEvent
\* interleave, the event never has more registrations than maxAttendees, and
\* no user has two registrations for it.
C28_CapacityNeverExceeded ==
  \A e \in EventIds :
    /\ CountRegistrations(e) <= MaxAttendees
    /\ \A r1, r2 \in CallIds :
         (/\ registrations[r1].exists /\ registrations[r2].exists
          /\ registrations[r1].eventId = e /\ registrations[r2].eventId = e
          /\ registrations[r1].userId = registrations[r2].userId)
           => r1 = r2

\* applyToOpportunity has thrown in call k
ApplyRejected(c) ==
  /\ c.op = "applyToOpportunity"
  /\ c.pc = "done"
  /\ c.res # "ok"

\* C29: however calls of applyToOpportunity interleave, there is at most one
\* application per opportunity and applicant, none by the author of the
\* opportunity, and a call that is rejected has written no application and no
\* notification: the step that rejects it writes nothing, it holds no row, and
\* a step of a call that writes a row is never followed by its rejection.
C29_ApplicationsUniqueAndGuarded ==
  /\ [](\A a1, a2 \in CallIds :
          (/\ applications[a1].exists /\ applications[a2].exists
           /\ applications[a1].opportunityId = applications[a2].opportunityId
           /\ applications[a1].applicantId = applications[a2].applicantId)
            => a1 = a2)
  /\ [](\A a \in CallIds :
          applications[a].exists
            => opportunities[applications[a].opportunityId].authorId
                 # applications[a].applicantId)
  /\ [](\A k \in CallIds : ApplyRejected(calls[k]) => ~applications[k].exists)
  /\ [][\A k \in CallIds :
          /\ (ApplyRejected(calls'[k]) /\ ~ApplyRejected(calls[k]))
               => /\ applications' = applications
                  /\ notifications' = notifications
                  /\ calls[k].pc # "notify"
          /\ (/\ calls[k].op = "applyToOpportunity"
              /\ calls'[k] # calls[k]
              /\ \/ applications' # applications
                 \/ notifications' # notifications)
               => /\ calls[k].pc \in {"createApplication", "notify"}
                  /\ calls'[k].pc \in {"notify", "done"}
                  /\ ~ApplyRejected(calls'[k])]_vars

\* C29 witness: two calls of the same applicant for the same opportunity both
\* passed the lookup; one has its application, the other was rejected by the
\* store, and there is one application and no notification for the rejected one.
C29_Witness ==
  \E k1, k2 \in CallIds :
    /\ calls[k1].op = "applyToOpportunity" /\ calls[k2].op = "applyToOpportunity"
    /\ calls[k1].user = calls[k2].user /\ calls[k1].target = calls[k2].target
    /\ calls[k1].pc = "done" /\ calls[k1].res = "ok"
    /\ calls[k2].pc = "done" /\ calls[k2].res = "P2002"
    /\ applications[k1].exists /\ ~applications[k2].exists
    /\ Cardinality({i \in Ids : notifications[i].exists}) = 1

\* C30 (as claimed): however calls of sendMessage between two users interleave,
\* in either direction, at most one conversation that is not a group has the
\* two of them as participants, and every message between them is attached
\* to it.
C30_OneDirectConversation ==
  \A a, b \in Users :
    a # b =>
      LET direct == {c \in CallIds : /\ conversations[c].exists
                                     /\ ~conversations[c].isGroup
                                     /\ conversations[c].participants = {a, b}}
      IN /\ Cardinality(direct) <= 1
         /\ \A m \in CallIds :
              (/\ messages[m].exists
               /\ {messages[m].senderId, messages[m].recipientId} = {a, b})
                => direct = {messages[m].conversationId}

====
